---- MODULE Spec2Model ----
(***************************************************************************)
(* Integrated gradients for an image classifier, as computed by the        *)
(* notebook resnet_model_understanding.ipynb.                              *)
(*                                                                         *)
(* Numbers are exact rationals <<n, d>> (d > 0, lowest terms); the         *)
(* notebook computes in float32/float64, so every equality below is the    *)
(* exact-arithmetic counterpart of an equality "within floating-point      *)
(* tolerance".  Images are functions from Elem (pixel position, channel)   *)
(* to numbers; the 224 x 224 positions are cut down to ImagePixels.        *)
(* The network (imagenet_resnet_v2 with its checkpoint) is external to the *)
(* notebook: it is modelled as one of a family of pure differentiable      *)
(* functions, chosen once in Init.                                         *)
(***************************************************************************)
EXTENDS Integers, Sequences, FiniteSets, TLC

\* ---------------------------------------------------------------- bounds
\* Largest RIEMANN_STEPS explored (the notebook's cell sets 30).
MaxSteps == 3
\* Number of pixel positions of an image (the notebook's 224 * 224).
ImagePixels == 1
\* Largest width and height of an image given to resize_and_pad_image, and
\* largest output_image_dim.
MaxSide == 4
MaxDim == 4

\* Largest number of times the gradients cell is executed.
MaxRuns == 2

\* ------------------------------------------------------------- constants
NUM_CHANNELS == 3
TOP_K == 5

\* Values RIEMANN_STEPS is drawn from: degenerate (-1, 0) and regular ones.
StepCounts == (-1)..MaxSteps
\* Raw pixel values an input image is drawn from (a subset of 0..255).
PixelValues == {1, 255}
\* Class indices (the notebook's network has _LABEL_CLASSES of them).
Classes == {0, 1}

Elem == (1..ImagePixels) \X (1..NUM_CHANNELS)

\* ------------------------------------------------------ exact arithmetic
Abs(x) == IF x < 0 THEN -x ELSE x

RECURSIVE GCD(_, _)
GCD(a, b) == IF b = 0 THEN a ELSE GCD(b, a % b)

\* The rational n/d in lowest terms with a positive denominator (d # 0).
Norm(n, d) ==
  LET g == GCD(Abs(n), Abs(d))
      s == IF d < 0 THEN -1 ELSE 1
  IN  <<(s * n) \div g, (s * d) \div g>>

Rat(n) == <<n, 1>>
Zero == <<0, 1>>

RAdd(x, y) ==
  LET g == GCD(x[2], y[2])
      l == (x[2] \div g) * y[2]
  IN  Norm(x[1] * (l \div x[2]) + y[1] * (l \div y[2]), l)

RNeg(x) == <<-x[1], x[2]>>
RSub(x, y) == RAdd(x, RNeg(y))

RMul(x, y) ==
  LET g1 == GCD(Abs(x[1]), y[2])
      g2 == GCD(Abs(y[1]), x[2])
  IN  Norm((x[1] \div g1) * (y[1] \div g2), (x[2] \div g2) * (y[2] \div g1))

\* x / y for y # 0.
RDiv(x, y) == RMul(x, Norm(y[2], y[1]))

RLess(x, y) ==
  LET g == GCD(x[2], y[2])
  IN  x[1] * (y[2] \div g) < y[1] * (x[2] \div g)

RLeq(x, y) == x = y \/ RLess(x, y)
RAbs(x) == <<Abs(x[1]), x[2]>>
RMax(x, y) == IF RLess(x, y) THEN y ELSE x

\* ---------------------------------------------------------------- images
ZeroImage == [e \in Elem |-> Zero]
MapAdd(a, b) == [e \in Elem |-> RAdd(a[e], b[e])]
MapMul(a, b) == [e \in Elem |-> RMul(a[e], b[e])]
MapScale(a, k) == [e \in Elem |-> RMul(a[e], k)]

\* The elements of a finite set in a fixed order, as a sequence.
RECURSIVE SetToSeq(_)
SetToSeq(S) ==
  IF S = {} THEN <<>>
  ELSE LET x == CHOOSE y \in S : TRUE IN <<x>> \o SetToSeq(S \ {x})

RECURSIVE SeqSum(_)
SeqSum(s) == IF s = <<>> THEN Zero ELSE RAdd(Head(s), SeqSum(Tail(s)))

\* The values of a map over the elements D, as a sequence.
Values(m, D) == LET es == SetToSeq(D) IN [k \in 1..Len(es) |-> m[es[k]]]

\* np.sum of an array.
NpSum(m) == SeqSum(Values(m, DOMAIN m))

\* preprocess_images: tf.to_float(images) / 255 - 0.5
preprocess_images(images) ==
  [e \in Elem |-> RSub(RDiv(Rat(images[e]), Rat(255)), Norm(1, 2))]

\* ------------------------------------------------------------ the network
\* imagenet_resnet_v2(RESNET_SIZE, _LABEL_CLASSES) restored from MODEL_DIR is
\* an external, stateless, differentiable function from an image batch to
\* one logit per class and image.  Each member of Networks is such a
\* function: the logit of class c is the sum over the image's elements of
\* lin[c] * x + quad[c] * x * x, so its gradient varies along the path and
\* between classes.
LinWeights == {[c \in Classes |-> c], [c \in Classes |-> 1 - c]}
QuadWeights == {[c \in Classes |-> 1 - 2 * c], [c \in Classes |-> 2 * c - 1]}
Networks == [lin : LinWeights, quad : QuadWeights]

\* The logit of class c for one image.
ClassLogit(w, c, x) ==
  SeqSum(Values([e \in Elem |->
                   RAdd(RMul(Rat(w.lin[c]), x[e]),
                        RMul(Rat(w.quad[c]), RMul(x[e], x[e])))], Elem))

\* network(inputs=..., is_training=False) on one image: the logit per class.
Network(w, x) == [c \in Classes |-> ClassLogit(w, c, x)]

\* tf.gradients of the class-c logit of one image with respect to that image.
LogitGradient(w, c, x) ==
  [e \in Elem |-> RAdd(Rat(w.lin[c]), RMul(Rat(2 * w.quad[c]), x[e]))]

\* tf.nn.top_k(logits, k): class indices by decreasing logit, the lower
\* index first among equal logits.
RECURSIVE TopKFrom(_, _, _)
TopKFrom(logits, rest, k) ==
  IF k = 0 \/ rest = {} THEN <<>>
  ELSE LET best == CHOOSE c \in rest :
                     \A d \in rest : \/ RLess(logits[d], logits[c])
                                     \/ logits[d] = logits[c] /\ c <= d
       IN  <<best>> \o TopKFrom(logits, rest \ {best}, k - 1)

top_k(logits, k) == TopKFrom(logits, DOMAIN logits, k)

\* resnet_model_fn: the predictions of the classifier for one image.  Only
\* 'classes' is modelled; 'probabilities' is printed and never read again.
resnet_model_fn(w, images) ==
  LET features == preprocess_images(images)
      logits == Network(w, features)
  IN  [classes |-> top_k(logits, TOP_K)]

\* ------------------------------------------------------- gradients_model_fn
\* Mutant: the fraction i / RIEMANN_STEPS taken as an integer division.
PathImageIntegerFraction(features, i, N) ==
  [e \in Elem |-> RMul(features[e], Rat(i \div N))]

\* Mutant: a fraction that is quadratic in i.
PathImageQuadratic(features, i, N) ==
  [e \in Elem |-> RDiv(RMul(features[e], Rat(i * i)), Rat(N * N))]

\* One image of the path: features * i / RIEMANN_STEPS.
PathImage(features, i, N) ==
  [e \in Elem |-> RDiv(RMul(features[e], Rat(i)), Rat(N))]

\* The loop that concatenates the path images after the zero image.
RECURSIVE PathLoop(_, _, _, _)
PathLoop(path, features, i, N) ==
  IF i > N THEN path
  ELSE PathLoop(Append(path, PathImage(features, i, N)), features, i + 1, N)

\* Mutant: the loop stops one image early, range(1, N).
PathFeaturesShort(features, N) == PathLoop(<<ZeroImage>>, features, 1, N - 1)

\* path_features: tf.zeros followed by the images for i in range(1, N + 1).
PathFeatures(features, N) == PathLoop(<<ZeroImage>>, features, 1, N)

\* Mutant: the gradient weighted by the interpolated image of its own step.
WeightedByPathImage(gradient, features, path_image) ==
  MapMul(gradient, path_image)

\* tf.multiply(gradients, features) for one image of the batch.
WeightedGradient(gradient, features, path_image) == MapMul(gradient, features)

\* Mutant: the network in training mode, whose batch normalisation centres
\* every image of the batch on the batch's mean image.
BatchNetworkTraining(w, path) ==
  LET n == Len(path)
      mean == [e \in Elem |->
                 RDiv(SeqSum([k \in 1..n |-> path[k][e]]), Rat(n))]
  IN  [k \in 1..n |-> Network(w, [e \in Elem |-> RSub(path[k][e], mean[e])])]

\* network(inputs=path_features, is_training=False): in PREDICT mode every
\* layer acts on each image of the batch by itself, so row k of the logits
\* is the network's output for image k.
BatchNetwork(w, path) == [k \in 1..Len(path) |-> Network(w, path[k])]

\* The derivative of row k of the class-c logits with respect to image j of
\* the batch: the logit's gradient on the diagonal, zero elsewhere.
LogitJacobian(w, c, path, k, j) ==
  IF k = j THEN LogitGradient(w, c, path[j]) ELSE ZeroImage

\* The sum over the rows 1..k of their derivatives with respect to image j.
RECURSIVE JacobianSum(_, _, _, _, _)
JacobianSum(w, c, path, k, j) ==
  IF k = 0 THEN ZeroImage
  ELSE MapAdd(JacobianSum(w, c, path, k - 1, j),
              LogitJacobian(w, c, path, k, j))

\* tf.gradients(target_logits, path_features): the derivative of the sum of
\* the target logits with respect to each image of the batch.
tf_gradients(w, c, path) ==
  [j \in 1..Len(path) |-> JacobianSum(w, c, path, Len(path), j)]

\* The predictions of gradients_model_fn for the whole batch.  tf.squeeze
\* removes every dimension of size 1, so a path of one image loses its batch
\* dimension in 'gradients' (batched = FALSE).
gradients_model_fn(w, images, most_likely_class, N) ==
  LET features == preprocess_images(images)
      path_features == PathFeatures(features, N)
      n == Len(path_features)
      path_logits == BatchNetwork(w, path_features)
      target_logits == [k \in 1..n |-> path_logits[k][most_likely_class[1]]]
      gradients == tf_gradients(w, most_likely_class[1], path_features)
      weighted ==
        [k \in 1..n |->
           WeightedGradient(gradients[k], features, path_features[k])]
  IN  [path_features |-> path_features,
       path_logits |-> path_logits,
       target_logits |-> target_logits,
       gradients |-> weighted,
       batched |-> n # 1]

\* Estimator.predict on the batch's predictions: one row per batch index, or
\* a ValueError (ok = FALSE) when the predictions disagree on the batch
\* length, as they do once tf.squeeze has removed that of 'gradients'.
PredictRows(preds) ==
  [ok |-> preds.batched,
   rows |-> [k \in 1..Len(preds.path_features) |->
               [path_features |-> preds.path_features[k],
                path_logits |-> preds.path_logits[k],
                target_logits |-> preds.target_logits[k],
                gradients |-> preds.gradients[k]]]]

\* ------------------------------------------------------------ serialising
\* pickle.dump / pickle.load of an object: the bytes of a file hold the
\* object, tagged with the format.
Pickle(obj) == [format |-> "pickle", object |-> obj]
Unpickle(bytes) == bytes.object

\* Mutant: the index is left out of the name, so every step writes one file.
PathGradientFileNoIndex(k) == <<"path_gradient_", 0, ".pkl">>

\* os.path.join(IMAGE_DIR, 'path_gradient_' + str(i) + '.pkl') and the two
\* files of totals; str(i) is modelled by i itself.
PathGradientFile(k) == <<"path_gradient_", k, ".pkl">>
IntGradientsFile == <<"int_gradients.pkl">>
GradientsAndLogitsFile == <<"gradients_and_logits.pkl">>

\* open(name, "wb") followed by pickle.dump: creates or replaces the file.
WriteFile(fs, name, obj) ==
  [f \in DOMAIN fs \cup {name} |-> IF f = name THEN Pickle(obj) ELSE fs[f]]

\* Mutant: the accumulator is overwritten instead of added to.
AccumulateOverwrite(acc, gradient_map) == gradient_map

\* int_gradients = np.add(int_gradients, gradient_map)
Accumulate(acc, gradient_map) == MapAdd(acc, gradient_map)

\* The entry appended to gradients_and_logits for one row.
GradientAndLogit(row) == <<NpSum(row.gradients), row.target_logits>>

\* list[k] of Python: <<TRUE, element>>, or <<FALSE, ...>> for an IndexError.
PyIndex(list, k) ==
  IF k >= 0 /\ k < Len(list) THEN <<TRUE, list[k + 1]>>
  ELSE IF k < 0 /\ Len(list) + k >= 0 THEN <<TRUE, list[Len(list) + k + 1]>>
  ELSE <<FALSE, Zero>>

\* ------------------------------------------------------------ visualising
AMPLIFICATION == 2

\* IEEE results of a division by zero: 0/0, x/0 for x > 0, x/0 for x < 0.
NaN == <<0, 0>>
PosInf == <<1, 0>>
NegInf == <<-1, 0>>
IsFinite(x) == x[2] # 0

\* numpy's x / y: a zero divisor gives nan or an infinity, not an exception.
NpDivide(x, y) ==
  IF y # Zero THEN RDiv(x, y)
  ELSE IF x = Zero THEN NaN
  ELSE IF RLess(Zero, x) THEN PosInf ELSE NegInf

RECURSIVE Insert(_, _)
Insert(x, s) ==
  IF s = <<>> THEN <<x>>
  ELSE IF RLeq(x, Head(s)) THEN <<x>> \o s
  ELSE <<Head(s)>> \o Insert(x, Tail(s))

RECURSIVE Sort(_)
Sort(s) == IF s = <<>> THEN <<>> ELSE Insert(Head(s), Sort(Tail(s)))

\* np.ndarray.min, np.ndarray.max and np.median of the elements D of a map.
NpMin(m, D) == Sort(Values(m, D))[1]
NpMax(m, D) == Sort(Values(m, D))[Cardinality(D)]
NpMedian(m, D) ==
  LET s == Sort(Values(m, D))
      n == Len(s)
  IN  IF n % 2 = 1 THEN s[(n + 1) \div 2]
      ELSE RDiv(RAdd(s[n \div 2], s[n \div 2 + 1]), Rat(2))

\* (gradient_map - min_grad) / (max_grad - min_grad)
Normalized(m, D) ==
  LET min_grad == NpMin(m, D)
      max_grad == NpMax(m, D)
  IN  [e \in D |-> NpDivide(RSub(m[e], min_grad), RSub(max_grad, min_grad))]

\* np.abs(gradient_map - median_grad) * AMPLIFICATION
\*   / max(max_grad - median_grad, median_grad - min_grad)
Centered(m, D) ==
  LET min_grad == NpMin(m, D)
      max_grad == NpMax(m, D)
      median_grad == NpMedian(m, D)
  IN  [e \in D |->
         NpDivide(RMul(RAbs(RSub(m[e], median_grad)), Rat(AMPLIFICATION)),
                  RMax(RSub(max_grad, median_grad),
                       RSub(median_grad, min_grad)))]

\* The two pictures one visualisation step hands to plt.imshow.
Plot(cell, index, m, D) ==
  [cell |-> cell, index |-> index, map |-> [e \in D |-> m[e]],
   normalized |-> Normalized(m, D), centered |-> Centered(m, D)]

\* int_gradients[:, :, channel]
ChannelElems(channel) == {e \in Elem : e[2] = channel + 1}

\* The two numbers of the final sanity check:
\*   gradients_and_logits[RIEMANN_STEPS][1] - gradients_and_logits[0][1]
\*   np.sum(int_gradients) / RIEMANN_STEPS + 1
TotalLogitDiff(last, first) == RSub(last[2], first[2])
SumOfIntegratedGradients(total, N) == RAdd(RDiv(NpSum(total), Rat(N)), Rat(1))

\* ------------------------------------------------- resize_and_pad_image
\* int(x * ratio) with ratio = float(output_image_dim) / max(old_size).  For
\* the sides and dimensions up to MaxSide + 1 and MaxDim + 1 the float
\* product truncates to the same integer as the exact quotient.
ScaledSide(x, old_size, output_image_dim) ==
  (x * output_image_dim) \div
    (IF old_size[1] > old_size[2] THEN old_size[1] ELSE old_size[2])

\* new_size = tuple([int(x * ratio) for x in old_size])
NewSize(old_size, output_image_dim) ==
  <<ScaledSide(old_size[1], old_size, output_image_dim),
    ScaledSide(old_size[2], old_size, output_image_dim)>>

\* img.resize(new_size, Image.ANTIALIAS): the scaled image, whose content is
\* not modelled.  A size with a zero side is outside what the library
\* promises: it raises ValueError or hands back an image without pixels.
ResizeOutcomes(new_size) ==
  IF new_size[1] >= 1 /\ new_size[2] >= 1 THEN {"scaled"}
  ELSE {"ValueError", "scaled"}

\* The pixels (x, y) of an image of the given width and height.
PixelsOf(width, height) == (0..(width - 1)) \X (0..(height - 1))

\* Image.new("RGB", (output_image_dim, output_image_dim)): all black.
ImageNew(output_image_dim) ==
  [p \in PixelsOf(output_image_dim, output_image_dim) |-> "black"]

\* ((output_image_dim - new_size[0]) // 2, (output_image_dim - new_size[1]) // 2)
PasteOffset(new_size, output_image_dim) ==
  <<(output_image_dim - new_size[1]) \div 2,
    (output_image_dim - new_size[2]) \div 2>>

\* padded_img.paste(scaled_img, offset): the pixels of the box that lie in
\* the image are the scaled image's.
Paste(padded_img, new_size, offset) ==
  [p \in DOMAIN padded_img |->
     IF /\ offset[1] <= p[1] /\ p[1] < offset[1] + new_size[1]
        /\ offset[2] <= p[2] /\ p[2] < offset[2] + new_size[2]
     THEN "scaled" ELSE padded_img[p]]

\* ------------------------------------------------------------------ state
VARIABLES
  RIEMANN_STEPS,         \* the step count N of the constants cell
  feature,               \* feature[0]: the resized input image, raw pixels
  net,                   \* the restored network
  pc,                    \* the cell (or loop) the notebook is about to run
  label_dict,            \* next(label_predictions)
  best_label,            \* label_dict['classes'][0]
  gen,                   \* gradient_predictions: "none", "created", "running" or "failed"
  predictions,           \* the rows the running generator yields, in order
  i,                     \* index of the integration loop
  int_gradients,         \* the accumulator
  gradients_and_logits,  \* the list of (gradient sum, target logit) pairs
  files,                 \* IMAGE_DIR: file name -> bytes
  write_log,             \* the files written, in order
  j,                     \* index of the visualisation loops
  plots,                 \* the pictures shown, in order
  printed,               \* the lines of the sanity check
  error,                 \* the exception that stopped the notebook, or "none"
  run,                   \* how many times the gradients cell has been started
  prev_total,            \* int_gradients.pkl as the previous execution left it
  resize                 \* the call of resize_and_pad_image

vars ==
  <<RIEMANN_STEPS, feature, net, pc, label_dict, best_label, gen, predictions,
    i, int_gradients, gradients_and_logits, files, write_log, j, plots,
    printed, error, run, prev_total, resize>>

\* What the cells of one execution of the notebook leave alone.
outside == <<run, prev_total, resize>>

inputs == <<RIEMANN_STEPS, feature, net>>

\* No call of resize_and_pad_image in flight.
NoResize ==
  [pc |-> "idle", img_size |-> <<1, 1>>, output_image_dim |-> 1,
   new_size |-> <<0, 0>>, offset |-> <<0, 0>>, padded_img |-> <<>>,
   error |-> "none"]

\* The calls resize_and_pad_image(img, output_image_dim), about to run.
ResizeCalls ==
  {[NoResize EXCEPT !.pc = "called", !.img_size = <<width, height>>,
                    !.output_image_dim = output_image_dim] :
     width \in 1..MaxSide, height \in 1..MaxSide,
     output_image_dim \in 1..MaxDim}

\* The notebook before the cells below the image cell have run.
NotebookStart ==
  /\ label_dict = [classes |-> <<>>]
  /\ best_label = -1
  /\ gen = "none"
  /\ predictions = <<>>
  /\ i = 0
  /\ int_gradients = ZeroImage
  /\ gradients_and_logits = <<>>
  /\ files = <<>>
  /\ write_log = <<>>
  /\ j = 0
  /\ plots = <<>>
  /\ printed = <<>>
  /\ error = "none"
  /\ run = 0
  /\ prev_total = ZeroImage

Init ==
  /\ RIEMANN_STEPS \in StepCounts
  /\ feature \in [Elem -> PixelValues]
  /\ net \in Networks
  /\ pc = "classify"
  /\ NotebookStart
  /\ resize = NoResize

\* label_dict = next(resnet_estimator.predict(...))
Classify ==
  /\ pc = "classify"
  /\ label_dict' = resnet_model_fn(net, feature)
  /\ pc' = "gradients"
  /\ UNCHANGED <<inputs, outside, best_label, gen, predictions, i, int_gradients,
                 gradients_and_logits, files, write_log, j, plots, printed,
                 error>>

\* Mutant: the accumulator keeps what the previous execution left in it.
NewAccumulatorStale == int_gradients

\* int_gradients = np.zeros((224, 224, 3))
NewAccumulator == ZeroImage

\* The head of the gradients cell: the target class, the (lazy) generator,
\* the zero accumulator and the empty list.
StartGradients ==
  /\ pc = "gradients"
  /\ best_label' = label_dict.classes[1]
  /\ gen' = "created"
  /\ int_gradients' = NewAccumulator
  /\ gradients_and_logits' = <<>>
  /\ i' = 0
  /\ run' = run + 1
  /\ pc' = "loop"
  /\ UNCHANGED <<inputs, label_dict, predictions, files, write_log, j, plots,
                 printed, error, prev_total, resize>>

\* One iteration of: for i in range(0, RIEMANN_STEPS + 1).  The first
\* next() runs gradients_model_fn on the whole batch; the later ones take
\* the next row of the same batch.
LoopStep ==
  /\ pc = "loop"
  /\ i <= RIEMANN_STEPS
  /\ \E batch \in
        {IF gen = "created"
         THEN PredictRows(gradients_model_fn(net, feature, <<best_label>>,
                                             RIEMANN_STEPS))
         ELSE [ok |-> TRUE, rows |-> predictions]} :
       IF ~batch.ok
       THEN /\ gen' = "failed"
            /\ error' = "ValueError"
            /\ pc' = "error"
            /\ UNCHANGED <<predictions, i, int_gradients,
                           gradients_and_logits, files, write_log>>
       ELSE IF i + 1 > Len(batch.rows)
       THEN /\ gen' = "failed"
            /\ error' = "StopIteration"
            /\ pc' = "error"
            /\ UNCHANGED <<predictions, i, int_gradients,
                           gradients_and_logits, files, write_log>>
       ELSE \E gradient_dict \in {batch.rows[i + 1]} :
              \E gradient_map \in {gradient_dict.gradients} :
                /\ gen' = "running"
                /\ predictions' = batch.rows
                /\ files' = WriteFile(files, PathGradientFile(i), gradient_map)
                /\ write_log' = Append(write_log, PathGradientFile(i))
                /\ int_gradients' = Accumulate(int_gradients, gradient_map)
                /\ gradients_and_logits' =
                     Append(gradients_and_logits, GradientAndLogit(gradient_dict))
                /\ i' = i + 1
                /\ UNCHANGED <<pc, error>>
  /\ UNCHANGED <<inputs, outside, label_dict, best_label, j, plots, printed>>

\* After the loop: the two pickles of totals.
DumpTotals ==
  /\ pc = "loop"
  /\ i > RIEMANN_STEPS
  /\ files' = WriteFile(WriteFile(files, IntGradientsFile, int_gradients),
                        GradientsAndLogitsFile, gradients_and_logits)
  /\ write_log' = write_log \o <<IntGradientsFile, GradientsAndLogitsFile>>
  /\ j' = 0
  /\ pc' = "plot_path"
  /\ UNCHANGED <<inputs, outside, label_dict, best_label, gen, predictions, i,
                 int_gradients, gradients_and_logits, printed, plots, error>>

\* One iteration of the cell that plots the gradient map of every path image.
PlotPathStep ==
  /\ pc = "plot_path"
  /\ j <= RIEMANN_STEPS
  /\ IF PathGradientFile(j) \notin DOMAIN files
     THEN /\ error' = "FileNotFoundError"
          /\ pc' = "error"
          /\ UNCHANGED <<j, plots>>
     ELSE LET gradient_map == Unpickle(files[PathGradientFile(j)])
          IN  /\ plots' = Append(plots, Plot("path", j, gradient_map, Elem))
              /\ j' = j + 1
              /\ UNCHANGED <<pc, error>>
  /\ UNCHANGED <<inputs, outside, label_dict, best_label, gen, predictions, i,
                 int_gradients, gradients_and_logits, files, write_log,
                 printed>>

\* The cell that plots the integrated gradient and prints the sanity check.
PlotIntegrated ==
  /\ pc = "plot_path"
  /\ j > RIEMANN_STEPS
  /\ LET loaded == Unpickle(files[IntGradientsFile])
         list == Unpickle(files[GradientsAndLogitsFile])
         last == PyIndex(list, RIEMANN_STEPS)
         first == PyIndex(list, 0)
     IN  /\ int_gradients' = loaded
         /\ plots' = Append(plots, Plot("integrated", 0, loaded, Elem))
         /\ IF ~last[1] \/ ~first[1]
            THEN /\ error' = "IndexError"
                 /\ pc' = "error"
                 /\ UNCHANGED <<printed, j>>
            ELSE IF RIEMANN_STEPS = 0
            THEN /\ error' = "ZeroDivisionError"
                 /\ pc' = "error"
                 /\ printed' = <<TotalLogitDiff(last[2], first[2])>>
                 /\ UNCHANGED j
            ELSE /\ printed' =
                      <<TotalLogitDiff(last[2], first[2]),
                        SumOfIntegratedGradients(loaded, RIEMANN_STEPS)>>
                 /\ j' = 0
                 /\ pc' = "plot_channel"
                 /\ UNCHANGED error
  /\ UNCHANGED <<inputs, outside, label_dict, best_label, gen, predictions, i,
                 gradients_and_logits, files, write_log>>

\* One iteration of: for channel in range(0, 3).
PlotChannel ==
  /\ pc = "plot_channel"
  /\ j < NUM_CHANNELS
  /\ plots' = Append(plots, Plot("channel", j, int_gradients, ChannelElems(j)))
  /\ j' = j + 1
  /\ pc' = IF j + 1 < NUM_CHANNELS THEN "plot_channel" ELSE "done"
  /\ UNCHANGED <<inputs, outside, label_dict, best_label, gen, predictions, i,
                 int_gradients, gradients_and_logits, files, write_log,
                 printed, error>>

Next ==
  \/ Classify
  \/ StartGradients
  \/ LoopStep
  \/ DumpTotals
  \/ PlotPathStep
  \/ PlotIntegrated
  \/ PlotChannel

Spec == Init /\ [][Next]_vars

\* The gradients cell executed again once it has finished: the notebook
\* keeps its globals and the files of IMAGE_DIR.
RerunGradients ==
  /\ pc = "plot_path"
  /\ j = 0
  /\ run < MaxRuns
  /\ prev_total' = Unpickle(files[IntGradientsFile])
  /\ pc' = "gradients"
  /\ UNCHANGED <<inputs, label_dict, best_label, gen, predictions, i,
                 int_gradients, gradients_and_logits, files, write_log, j,
                 plots, printed, error, run, resize>>

NextRerun ==
  \/ Next
  \/ RerunGradients

SpecRerun == Init /\ [][NextRerun]_vars

\* The image cell about to call resize_and_pad_image on an image of any
\* size; the cells below it have not run.
InitResize ==
  /\ RIEMANN_STEPS = MaxSteps
  /\ feature = [e \in Elem |-> 255]
  /\ net \in {w \in Networks : w.lin[0] = 0 /\ w.quad[0] = 1}
  /\ pc = "load"
  /\ NotebookStart
  /\ resize \in ResizeCalls

\* One call of resize_and_pad_image, from old_size = img.size to the return
\* of padded_img or the exception of img.resize.
resize_and_pad_image ==
  /\ pc = "load"
  /\ resize.pc = "called"
  /\ \E new_size \in {NewSize(resize.img_size, resize.output_image_dim)} :
       \E outcome \in ResizeOutcomes(new_size) :
         IF outcome = "ValueError"
         THEN resize' = [resize EXCEPT !.pc = "raised",
                                       !.new_size = new_size,
                                       !.error = "ValueError"]
         ELSE \E offset \in {PasteOffset(new_size, resize.output_image_dim)} :
                resize' =
                  [resize EXCEPT
                     !.pc = "returned",
                     !.new_size = new_size,
                     !.offset = offset,
                     !.padded_img =
                       Paste(ImageNew(resize.output_image_dim), new_size,
                             offset)]
  /\ UNCHANGED <<inputs, pc, label_dict, best_label, gen, predictions, i,
                 int_gradients, gradients_and_logits, files, write_log, j,
                 plots, printed, error, run, prev_total>>

NextResize == resize_and_pad_image

SpecResize == InitResize /\ [][NextResize]_vars

\* ================================================================ claims
N == RIEMANN_STEPS
\* The normalised original image.
Target == preprocess_images(feature)
\* The path image, gradient map and target logit of path index k, as the
\* running generator yields them.
PathAt(k) == predictions[k + 1].path_features
GradientMapAt(k) == predictions[k + 1].gradients
TargetLogitAt(k) == predictions[k + 1].target_logits
PathBuilt == gen = "running"

\* C1: for every N >= 1 and every image, the path has exactly N+1 images,
\* image 0 is the all-zero baseline and image N is the normalised original.
C1_PathEndpoints ==
  (PathBuilt /\ N >= 1) =>
    /\ Len(predictions) = N + 1
    /\ PathAt(0) = ZeroImage
    /\ PathAt(N) = Target

C1_Witness ==
  /\ PathBuilt
  /\ N = 3
  /\ Len(predictions) = 4
  /\ PathAt(3) = Target
  /\ \E e \in Elem : feature[e] = 1

\* C2: for every i in 0..N, path image i is target * i/N (the baseline being
\* all-zero); for N = 2 the path is [0, 1/2, 1] times the target.
C2_PathImageFraction ==
  PathBuilt =>
    /\ \A k \in 0..N : PathAt(k) = MapScale(Target, Norm(k, N))
    /\ N = 2 =>
         /\ PathAt(0) = MapScale(Target, Rat(0))
         /\ PathAt(1) = MapScale(Target, Norm(1, 2))
         /\ PathAt(2) = MapScale(Target, Rat(1))

C2_Witness ==
  /\ PathBuilt
  /\ N = 2
  /\ \A e \in Elem : feature[e] = 1
  /\ PathAt(1) = MapScale(Target, Norm(1, 2))
  /\ PathAt(1) # PathAt(2)

\* C3: the elementwise difference between consecutive path images is the
\* same for every i in 0..N-1 and equals (target - baseline) / N.
C3_PathLinear ==
  PathBuilt =>
    \A k \in 0..(N - 1) : \A e \in Elem :
      /\ RSub(PathAt(k + 1)[e], PathAt(k)[e]) = RDiv(Target[e], Rat(N))
      /\ RSub(PathAt(k + 1)[e], PathAt(k)[e]) = RSub(PathAt(1)[e], PathAt(0)[e])

C3_Witness ==
  /\ PathBuilt
  /\ N = 3
  /\ \E e \in Elem :
       /\ RSub(PathAt(3)[e], PathAt(2)[e]) = RSub(PathAt(1)[e], PathAt(0)[e])
       /\ RSub(PathAt(3)[e], PathAt(2)[e]) # Zero

\* The elementwise sum of the gradient maps of path indices 0..k-1.
RECURSIVE SumOfGradientMaps(_)
SumOfGradientMaps(k) ==
  IF k = 0 THEN ZeroImage
  ELSE MapAdd(SumOfGradientMaps(k - 1), GradientMapAt(k - 1))

\* C4: int_gradients starts at all zeros; after the iteration for path index
\* k it is the sum of the gradient maps of indices 0..k; when the loop ends
\* it is the sum of all N+1 maps, and that value is what is serialised.
C4_AccumulatorIsPartialSum ==
  /\ pc = "loop" =>
       /\ int_gradients = SumOfGradientMaps(i)
       /\ i = 0 => int_gradients = ZeroImage
  /\ IntGradientsFile \in DOMAIN files =>
       /\ Unpickle(files[IntGradientsFile]) = SumOfGradientMaps(Len(predictions))
       /\ N >= 1 => Len(predictions) = N + 1

C4_Witness ==
  /\ IntGradientsFile \in DOMAIN files
  /\ N = 3
  /\ Len(predictions) = 4
  /\ Unpickle(files[IntGradientsFile]) = SumOfGradientMaps(4)
  /\ GradientMapAt(1) # GradientMapAt(2)
  /\ Unpickle(files[IntGradientsFile]) # ZeroImage

\* C6: the sanity check reports, as 'sum of integrated gradients', the total
\* of the accumulated IntegratedGradient divided by N with nothing else
\* added, and, as 'total logit diff', the target logit recorded at path
\* index N minus the one recorded at path index 0.
C6_SanityCheckValues ==
  Len(printed) = 2 =>
    /\ printed[1] = RSub(TargetLogitAt(N), TargetLogitAt(0))
    /\ printed[2] = RDiv(NpSum(SumOfGradientMaps(N + 1)), Rat(N))

\* The logits of the classifier for the original image.
ClassifierLogits == Network(net, Target)

\* C7: the gradient map of every path step is the gradient of the score of
\* one fixed class, the classifier's top-1 class, with respect to that
\* step's path image, multiplied elementwise by the normalised original
\* image (not by the step's interpolated image).  Stated of the row the
\* loop has just consumed, path index i - 1, after every iteration.
C7_GradientOfFixedTopClass ==
  (pc = "loop" /\ i >= 1) =>
    LET k == i - 1
        logits == ClassifierLogits
    IN  /\ best_label = label_dict.classes[1]
        /\ \A c \in Classes : RLeq(logits[c], logits[best_label])
        /\ TargetLogitAt(k) = ClassLogit(net, best_label, PathAt(k))
        /\ GradientMapAt(k) =
             MapMul(LogitGradient(net, best_label, PathAt(k)), Target)

C7_Witness ==
  /\ pc = "loop"
  /\ i = 2
  /\ N >= 2
  /\ best_label = 1
  /\ GradientMapAt(1) = MapMul(LogitGradient(net, 1, PathAt(1)), Target)
  /\ GradientMapAt(1) # MapMul(LogitGradient(net, 1, PathAt(1)), PathAt(1))
  /\ GradientMapAt(1) # MapMul(LogitGradient(net, 0, PathAt(1)), Target)

\* C8: once the loop has finished, exactly one file path_gradient_i exists
\* for every i in 0..N and holds the gradient map of step i;
\* gradients_and_logits has N+1 entries, the i-th being the (gradient sum,
\* target logit) pair of step i; and the total is written once, after all
\* N+1 steps have been consumed.
C8_OutputArtifacts ==
  IntGradientsFile \in DOMAIN files =>
    /\ i = N + 1
    /\ write_log = [k \in 1..(N + 1) |-> PathGradientFile(k - 1)]
                     \o <<IntGradientsFile, GradientsAndLogitsFile>>
    /\ DOMAIN files = {PathGradientFile(k) : k \in 0..N}
                        \cup {IntGradientsFile, GradientsAndLogitsFile}
    /\ \A k \in 0..N :
         Unpickle(files[PathGradientFile(k)]) = GradientMapAt(k)
    /\ Len(gradients_and_logits) = N + 1
    /\ \A k \in 0..N :
         gradients_and_logits[k + 1] = <<NpSum(GradientMapAt(k)), TargetLogitAt(k)>>
    /\ Unpickle(files[GradientsAndLogitsFile]) = gradients_and_logits

C8_Witness ==
  /\ IntGradientsFile \in DOMAIN files
  /\ N = 3
  /\ Len(write_log) = 6
  /\ Len(gradients_and_logits) = 4
  /\ Unpickle(files[PathGradientFile(2)]) # Unpickle(files[PathGradientFile(3)])

\* C9: a step count N < 1 makes the procedure fail with an error before any
\* gradient is accumulated or any output is written; no integrated gradient
\* and no NaN or infinite value is produced.
C9_DegenerateStepsFailFast ==
  N < 1 =>
    /\ files = <<>>
    /\ gradients_and_logits = <<>>
    /\ \A p \in 1..Len(plots) :
         \A e \in DOMAIN plots[p].normalized :
           IsFinite(plots[p].normalized[e]) /\ IsFinite(plots[p].centered[e])
    /\ pc \in {"classify", "gradients", "loop", "error"}

\* A plotted map is constant: its maximum equals its minimum.
IsConstant(m) == \A d, e \in DOMAIN m : m[d] = m[e]

\* C10: when a plotted gradient map is constant, the normalisation does not
\* divide by zero: the pictures it produces hold finite values (a guarded
\* fallback), not the results of a division by a zero denominator.
C10_ConstantMapGuarded ==
  \A p \in 1..Len(plots) :
    (N >= 1 /\ IsConstant(plots[p].map)) =>
      \A e \in DOMAIN plots[p].map :
        IsFinite(plots[p].normalized[e]) /\ IsFinite(plots[p].centered[e])

\* The serialised per-step gradient maps added in path order to zeros.
RECURSIVE SumOfGradientFiles(_)
SumOfGradientFiles(k) ==
  IF k = 0 THEN ZeroImage
  ELSE MapAdd(SumOfGradientFiles(k - 1),
              Unpickle(files[PathGradientFile(k - 1)]))

\* C11: running the integration again (zero accumulator, then the maps of
\* path indices 0..N in order) over the same per-step gradient maps gives
\* the same IntegratedGradient: it is the sum of the serialised maps and
\* owes nothing to the state the earlier run left.
C11_RerunSameIntegratedGradient ==
  run >= 2 =>
    /\ Unpickle(files[IntGradientsFile]) = prev_total
    /\ (pc = "loop" /\ i = N + 1) => int_gradients = prev_total
    /\ pc = "plot_path" =>
         Unpickle(files[IntGradientsFile]) = SumOfGradientFiles(i)

C11_Witness ==
  /\ run = 2
  /\ pc = "plot_path"
  /\ N = 3
  /\ Len(write_log) = 12
  /\ prev_total # ZeroImage
  /\ Unpickle(files[IntGradientsFile]) = prev_total

\* The target logit and the gradient map of path image k evaluated alone,
\* as a batch of that one image.
SingleTargetLogit(k) == BatchNetwork(net, <<PathAt(k)>>)[1][best_label]
SingleGradientMap(k) ==
  WeightedGradient(tf_gradients(net, best_label, <<PathAt(k)>>)[1],
                   Target, PathAt(k))

ResizeDone == resize.pc \in {"returned", "raised"}
\* The larger side of the input image.
MaxOldSide ==
  IF resize.img_size[1] > resize.img_size[2]
  THEN resize.img_size[1] ELSE resize.img_size[2]

\* C13: for every image of positive width and height and every
\* output_image_dim D >= 1, resize_and_pad_image returns an image of exactly
\* D x D pixels; the input scaled by D / max(width, height), both sides
\* truncated to integers, has both sides at least 1 and at most D and is
\* pasted at the non-negative offset ((D - new_width) // 2,
\* (D - new_height) // 2); the remaining pixels are black.
C13_ResizedAndPadded ==
  ResizeDone =>
    LET D == resize.output_image_dim
        new_width == (resize.img_size[1] * D) \div MaxOldSide
        new_height == (resize.img_size[2] * D) \div MaxOldSide
        left == (D - new_width) \div 2
        top == (D - new_height) \div 2
    IN  /\ resize.pc = "returned"
        /\ DOMAIN resize.padded_img = (0..(D - 1)) \X (0..(D - 1))
        /\ resize.new_size = <<new_width, new_height>>
        /\ 1 <= new_width /\ new_width <= D
        /\ 1 <= new_height /\ new_height <= D
        /\ resize.offset = <<left, top>>
        /\ left >= 0 /\ top >= 0
        /\ \A p \in DOMAIN resize.padded_img :
             resize.padded_img[p] =
               IF /\ left <= p[1] /\ p[1] < left + new_width
                  /\ top <= p[2] /\ p[2] < top + new_height
               THEN "scaled" ELSE "black"

====
